---- MODULE Spec2Model ----
(***************************************************************************)
(* A model of bevy_world_space_ui (src/src/lib.rs): the lifecycle hooks of *)
(* WorldSpaceUiRoot and WorldSpaceUiSurface, the pure function             *)
(* get_ray_mesh_hit_uv, and the two chained per-frame systems              *)
(* drive_diegetic_pointer and send_pointer_input.                          *)
(*                                                                         *)
(* Numbers.  Vec2/Vec3 components are modelled in fixed point: barycentric *)
(* weights are integers that sum to BaryDen (weight/BaryDen is the f32     *)
(* weight), so an interpolated UV and a pixel position are integers in     *)
(* units of 1/BaryDen.  The default PreviousCursorPosition (0,0) is <<0,0>>*)
(* in every unit.                                                          *)
(***************************************************************************)
EXTENDS Integers, Sequences, FiniteSets, TLC

VARIABLES
    world,          \* the ECS world: components, assets, spawned entities
    pc,             \* where the frame is: "idle", "drive", "send", "panicked"
    cur,            \* the (cube, hit) pair the ray pass is processing
    nHits,          \* hits the ray pass has taken in this frame
    nEvents,        \* window events send_pointer_input has read in this frame
    window_event,   \* the window event send_pointer_input is processing
    nOps,           \* inserts and removals the application has made
    pointer_input,  \* Events<PointerInput> written in this frame, in order
    drive_result,   \* what drive_diegetic_pointer returned in this frame
    mesh,           \* get_ray_mesh_hit_uv: the mesh argument
    hit,            \* get_ray_mesh_hit_uv: the hit argument
    uv_result       \* get_ray_mesh_hit_uv: the returned value

vars == <<world, nOps, pc, cur, nHits, nEvents, window_event, pointer_input,
          drive_result,
          mesh, hit, uv_result>>

frame_vars == <<pc, cur, nHits, nEvents, window_event, pointer_input, drive_result>>

----------------------------------------------------------------------------
(* Bounds of the model *)

BaryDen == 2            \* fixed-point denominator of barycentric weights
MaxTriangles == 1       \* triangles of a mesh handed to get_ray_mesh_hit_uv
MaxHits == 2            \* hits the ray pass processes in one frame
MaxWindowEvents == 1    \* window events read in one frame
MaxOps == 4             \* inserts and removals the application makes in setup

----------------------------------------------------------------------------
(* Option and Vec2 *)

None == [tag |-> "None"]
Some(v) == [tag |-> "Some", value |-> v]
Panic == [tag |-> "Panic"]

Vec2Add(a, b) == <<a[1] + b[1], a[2] + b[2]>>
Vec2Sub(a, b) == <<a[1] - b[1], a[2] - b[2]>>
Vec2Scale(k, a) == <<k * a[1], k * a[2]>>
Vec2Mul(a, b) == <<a[1] * b[1], a[2] * b[2]>>

----------------------------------------------------------------------------
(* Meshes and hits *)

\* Vertex attribute ATTRIBUTE_UV_0: absent, stored as Float32x2, or stored in
\* another format.  values is the vertex buffer (index 0 of the code is
\* values[1]).
UvAttribute(format, values) == [format |-> format, values |-> values]

\* Mesh::indices(): None, Indices::U16 or Indices::U32.
MeshIndices(kind, values) == [kind |-> kind, values |-> values]

Mesh(uv, indices) == [uv |-> uv, indices |-> indices]

\* RayMeshHit: the fields get_ray_mesh_hit_uv reads.
RayMeshHit(triangle_index, barycentric_coords) ==
    [triangle_index |-> triangle_index, barycentric_coords |-> barycentric_coords]

\* Vec3::zxy()
Zxy(v) == <<v[3], v[1], v[2]>>

\* The weights in axis order (x,y,z), without the permutation.
ZxyAsXyz(v) == <<v[1], v[2], v[3]>>

\* bc.zxy() of line 203.
Swizzle(v) == Zxy(v)

\* Slice indexing v[i] of Rust (0-based, out of bounds panics).
InBounds(s, i) == i >= 0 /\ i < Len(s)
At(s, i) == s[i + 1]

\* Index arithmetic of the non-indexed branch with the *3 dropped.
NonIndexedCornersNoStride(h, uvs) ==
    LET i == h.triangle_index.value
    IN  IF InBounds(uvs, i) /\ InBounds(uvs, i + 1) /\ InBounds(uvs, i + 2)
        THEN Some(<<At(uvs, i), At(uvs, i + 1), At(uvs, i + 2)>>)
        ELSE Panic

\* Lines 195-200: the three UV corners of a non-indexed triangle list.
NonIndexedCorners(h, uvs) ==
    LET i == h.triangle_index.value * 3
    IN  IF InBounds(uvs, i) /\ InBounds(uvs, i + 1) /\ InBounds(uvs, i + 2)
        THEN Some(<<At(uvs, i), At(uvs, i + 1), At(uvs, i + 2)>>)
        ELSE Panic

\* Lines 181-193: the three UV corners through the index buffer.  The two
\* arms (U16, U32) differ only in the integer width of the entries, which
\* `as usize` widens without change.
IndexedCorners(h, uvs, indices) ==
    LET i == h.triangle_index.value * 3
    IN  IF ~(InBounds(indices, i) /\ InBounds(indices, i + 1) /\ InBounds(indices, i + 2))
        THEN Panic
        ELSE LET a == At(indices, i)
                 b == At(indices, i + 1)
                 c == At(indices, i + 2)
             IN  IF InBounds(uvs, a) /\ InBounds(uvs, b) /\ InBounds(uvs, c)
                 THEN Some(<<At(uvs, a), At(uvs, b), At(uvs, c)>>)
                 ELSE Panic

\* Lines 175-178 with the missing attribute replaced by a default buffer of
\* zero UVs instead of the early return.
UvBufferOrDefault(m) ==
    IF m.uv.format = "Float32x2" THEN Some(m.uv.values)
    ELSE Some(<<<<0, 0>>, <<0, 0>>, <<0, 0>>, <<0, 0>>>>)

\* Lines 175-178: the Float32x2 UV buffer of the mesh, or None (the early
\* return) when the attribute is absent or stored in another format.
UvBuffer(m) ==
    IF m.uv.format = "Float32x2" THEN Some(m.uv.values) ELSE None

\* WorldSpaceUiSurface::get_ray_mesh_hit_uv (lines 174-206).  The result is
\* None, Some(uv) or Panic (an unwrap of None or an index out of bounds).
GetRayMeshHitUv(h, m) ==
    LET buffer == UvBuffer(m)
    IN  IF buffer.tag = "None" THEN None
        ELSE IF h.triangle_index.tag = "None" THEN Panic
        ELSE LET uvs == IF m.indices.kind # "None"
                        THEN IndexedCorners(h, buffer.value, m.indices.values)
                        ELSE NonIndexedCorners(h, buffer.value)
             IN  IF uvs.tag = "Panic" THEN Panic
                 ELSE LET bc == Swizzle(h.barycentric_coords)
                          c == uvs.value
                      IN  Some(Vec2Add(Vec2Add(Vec2Scale(bc[1], c[1]),
                                               Vec2Scale(bc[2], c[2])),
                                       Vec2Scale(bc[3], c[3])))

----------------------------------------------------------------------------
(* Inputs of get_ray_mesh_hit_uv *)

\* The UV buffer of the spec's test triangle: uv0=(0,0), uv1=(1,0), uv2=(0,1).
TriangleUvs == <<<<0, 0>>, <<1, 0>>, <<0, 1>>>>

\* The mesh of Rectangle::default(), as the examples spawn it: four vertices,
\* two triangles, 32-bit indices.
RectangleUvs == <<<<1, 0>>, <<0, 0>>, <<0, 1>>, <<1, 1>>>>
RectangleMesh ==
    Mesh(UvAttribute("Float32x2", RectangleUvs), MeshIndices("U32", <<0, 1, 2, 0, 2, 3>>))

\* A mesh without ATTRIBUTE_UV_0.
NoUvMesh == Mesh(UvAttribute("Absent", <<>>), MeshIndices("U32", <<0, 1, 2>>))

\* Triangle lists of MaxTriangles triangles over the vertices of a buffer.
TriangleLists(uvs) == [1..(3 * MaxTriangles) -> 0..(Len(uvs) - 1)]

\* The same triangle list in its three forms.  A 16-bit index buffer holds
\* each entry modulo 2^16; a non-indexed mesh holds one vertex per corner
\* (Mesh::duplicate_vertices).
AsU32(uvs, tl) == Mesh(UvAttribute("Float32x2", uvs), MeshIndices("U32", tl))
AsU16(uvs, tl) ==
    Mesh(UvAttribute("Float32x2", uvs),
         MeshIndices("U16", [k \in DOMAIN tl |-> tl[k] % 65536]))
AsNonIndexed(uvs, tl) ==
    Mesh(UvAttribute("Float32x2", [k \in DOMAIN tl |-> At(uvs, tl[k])]),
         MeshIndices("None", <<>>))

\* What a test mesh was built from, so that its other forms can be named.
MeshSource(uvs, tl, form) == [uvs |-> uvs, tl |-> tl, form |-> form]
Build(src) ==
    CASE src.form = "U16" -> AsU16(src.uvs, src.tl)
      [] src.form = "U32" -> AsU32(src.uvs, src.tl)
      [] src.form = "NonIndexed" -> AsNonIndexed(src.uvs, src.tl)
      [] src.form = "NoUv" ->
            Mesh(UvAttribute("Absent", <<>>), MeshIndices("U32", src.tl))
      [] src.form = "OtherFormat" ->
            Mesh(UvAttribute("Float32x3", src.uvs), MeshIndices("U32", src.tl))

MeshForms == {"U16", "U32", "NonIndexed", "NoUv", "OtherFormat"}
MeshSources ==
    {MeshSource(TriangleUvs, tl, f) : tl \in TriangleLists(TriangleUvs), f \in MeshForms}
    \cup {MeshSource(RectangleUvs, <<0, 1, 2, 0, 2, 3>>, f) : f \in MeshForms}

\* Barycentric weights: naturals that sum to BaryDen.
Barycentrics ==
    {b \in (0..BaryDen) \X (0..BaryDen) \X (0..BaryDen) : b[1] + b[2] + b[3] = BaryDen}

\* Hits: no triangle index, or one from 0 to one past the last triangle of
\* a MaxTriangles mesh.
TriangleIndices == {None} \cup {Some(t) : t \in 0..MaxTriangles}
Hits == {RayMeshHit(t, b) : t \in TriangleIndices, b \in Barycentrics}

NotComputed == [tag |-> "NotComputed"]

----------------------------------------------------------------------------
(* The ECS world *)

Roots == {"R1", "R2"}               \* entities that may carry WorldSpaceUiRoot
SurfaceEntities == {"S1", "S2"}     \* entities that carry Mesh3d
Textures == {"T1", "T2"}            \* Handle<Image>
PointerIds == {"P1", "P2"}          \* PointerId::Custom(..)
MeshIds == {"Rectangle", "NoUv"}    \* Handle<Mesh>

\* Assets<Mesh>
MeshAsset(id) == IF id = "Rectangle" THEN RectangleMesh ELSE NoUvMesh

\* Image::size() of each texture as the setup creates it, in pixels.
ImageSize(t) == IF t = "T1" THEN <<2, 1>> ELSE <<3, 2>>

\* Assets<Image>: the size of every texture the application has created.
CreatedImages == [T1 |-> ImageSize("T1"), T2 |-> ImageSize("T2")]

\* RenderTarget of a camera and NormalizedRenderTarget.
ImageTarget(t) == [kind |-> "Image", handle |-> t]
PrimaryWindowTarget == [kind |-> "Window", handle |-> "Primary"]

\* A component table without entries, over the root entities and over the
\* surface entities.
NoneOnRoots == [R1 |-> None, R2 |-> None]
NoneOnSurfaces == [S1 |-> None, S2 |-> None]

\* The world before setup: the entities exist, with Mesh3d on the surface
\* entities, and carry none of this crate's components.
\*   primary_window   "unregistered": PrimaryWindow is no component of the
\*                    world; "absent": registered, on no entity; "present"
\*   images           the textures present in Assets<Image>
\*   image_size       Image::size() of each texture at present
EmptyWorld(primary_window, images, mesh3d) ==
    [primary_window |-> primary_window,
     images |-> images,
     image_size |-> CreatedImages,
     mesh3d |-> mesh3d,
     root |-> NoneOnRoots,
     ui_target_camera |-> NoneOnRoots,
     cameras |-> <<>>,
     surface |-> NoneOnSurfaces,
     render_target |-> NoneOnSurfaces,
     mesh_material |-> NoneOnSurfaces,
     cursor |-> NoneOnSurfaces,
     materials |-> <<>>,
     pointers |-> <<>>,
     panicked |-> FALSE]

\* struct WorldSpaceUiRoot
WorldSpaceUiRoot(texture) == [texture |-> texture]

\* struct WorldSpaceUiSurface
WorldSpaceUiSurface(root, texture, pointer_id, default_material) ==
    [root |-> root, texture |-> texture, pointer_id |-> pointer_id,
     default_material |-> default_material]

\* struct WorldSpaceUiRenderTarget
WorldSpaceUiRenderTarget(target, size) == [target |-> target, size |-> size]

\* on_add of WorldSpaceUiRoot without the insert of UiTargetCamera.
RootOnAddNoTargetCamera(w, e) ==
    [w EXCEPT !.cameras = Append(@, [target |-> ImageTarget(w.root[e].value.texture),
                                     spawned_for |-> e])]

\* WorldSpaceUiRoot::on_add with its queued commands applied: spawn a camera
\* that renders to the root's texture and insert UiTargetCamera(camera) on the
\* root (replacing the one it has).  spawned_for records the root whose hook
\* spawned the camera.
RootOnAdd(w, e) ==
    LET camera == [target |-> ImageTarget(w.root[e].value.texture), spawned_for |-> e]
        texture_camera == Len(w.cameras) + 1
    IN  [w EXCEPT !.cameras = Append(@, camera),
                  !.ui_target_camera[e] = Some(texture_camera)]

\* Insert of a WorldSpaceUiRoot on entity e.  The on_add hook runs only when e
\* did not carry the component; otherwise the value is replaced.
InsertRoot(w, e, texture) ==
    LET inserted == [w EXCEPT !.root[e] = Some(WorldSpaceUiRoot(texture))]
    IN  IF w.root[e].tag = "None" THEN RootOnAdd(inserted, e) ELSE inserted

\* Removal of the WorldSpaceUiRoot component: the crate registers no
\* on_remove hook, so the camera and UiTargetCamera stay.
RemoveRoot(w, e) == [w EXCEPT !.root[e] = None]

\* RenderTarget::normalize(primary_window): an image target needs no window,
\* the primary window target needs the primary window entity.
Normalize(target, primary_window) ==
    IF target.kind = "Image" THEN Some(target)
    ELSE IF primary_window.tag = "Some" THEN Some(target) ELSE None

\* Lines 149-153 with the Err of single() unwrapped instead of turned to None.
PrimaryWindowUnwrapped(w) ==
    IF w.primary_window = "present" THEN Some(Some("Window")) ELSE Panic

\* Lines 149-153: try_query_filtered(..).unwrap() panics when PrimaryWindow is
\* not registered; single(..).ok() is Some(window) or None.
PrimaryWindow(w) ==
    IF w.primary_window = "unregistered" THEN Panic
    ELSE IF w.primary_window = "present" THEN Some(Some("Window"))
    ELSE Some(None)

\* Lines 144-147 with the texture left out of the material.
StandardMaterialWithoutTexture(surface) ==
    [base_color_texture |-> None, rest |-> surface.default_material]

\* Lines 144-147: the material of the surface.  rest stands for the fields
\* other than base_color_texture: those of default_material when it is given
\* (Some), those of StandardMaterial::default() otherwise (None).
StandardMaterial(surface) ==
    [base_color_texture |-> Some(surface.texture), rest |-> surface.default_material]

\* Lines 157-161 with a missing image read as an image of size zero.
TextureSizeOrDefault(w, texture) ==
    IF texture \in w.images THEN Some(w.image_size[texture]) ELSE Some(<<0, 0>>)

\* Lines 157-161: Assets<Image>::get(&surface.texture) and Image::size();
\* None where the unwrap of line 160 panics.
TextureSize(w, texture) ==
    IF texture \in w.images THEN Some(w.image_size[texture]) ELSE None

\* Line 170: the entity spawned with the PointerId component.  spawned_for
\* records the surface whose hook spawned it.
VirtualPointer(pointer_id, e) == [pointer_id |-> pointer_id, spawned_for |-> e]

\* WorldSpaceUiSurface::on_add (lines 137-171) with its queued commands
\* applied.  A panic leaves the world as it was when the hook panicked.
SurfaceOnAdd(w, e) ==
    LET surface == w.surface[e].value
        material == StandardMaterial(surface)
        size == TextureSize(w, surface.texture)
        w1 == [w EXCEPT !.materials = Append(@, material)]
        material_handle == Len(w1.materials)
        failed == [w1 EXCEPT !.panicked = TRUE]
        primary_window == PrimaryWindow(w)
        ui_camera_entity == w.ui_target_camera[surface.root]
    IN  IF primary_window.tag = "Panic" THEN failed
        ELSE IF ui_camera_entity.tag = "None" THEN failed
        ELSE LET ui_camera == w.cameras[ui_camera_entity.value]
                 target == Normalize(ui_camera.target, primary_window.value)
             IN  IF target.tag = "None" THEN failed
                 ELSE IF size.tag = "None" THEN failed
                 ELSE [w1 EXCEPT
                         !.mesh_material[e] = Some(material_handle),
                         !.render_target[e] =
                             Some(WorldSpaceUiRenderTarget(target.value, size.value)),
                         !.pointers = Append(@, VirtualPointer(surface.pointer_id, e))]

\* A PreviousCursorPosition that starts off the texture instead of at zero.
PreviousCursorPositionOffTexture == <<-1, -1>>

\* Lines 111-112: PreviousCursorPosition::default(), from #[derive(Default)]
\* on a Vec2.
PreviousCursorPositionDefault == <<0, 0>>

\* Insert of a WorldSpaceUiSurface on entity e.  When e did not carry the
\* component, the required PreviousCursorPosition is added with its default
\* unless e has one, and the on_add hook runs.
InsertSurface(w, e, surface) ==
    LET inserted == [w EXCEPT !.surface[e] = Some(surface)]
        required == [inserted EXCEPT
                        !.cursor[e] = IF @.tag = "None"
                                      THEN Some(PreviousCursorPositionDefault)
                                      ELSE @]
    IN  IF w.surface[e].tag = "None" THEN SurfaceOnAdd(required, e) ELSE inserted

\* Removal of the WorldSpaceUiSurface component: the components the hook
\* attached, the required components and the virtual pointer stay.
RemoveSurface(w, e) == [w EXCEPT !.surface[e] = None]

\* The application removes the public WorldSpaceUiRenderTarget component.
RemoveRenderTarget(w, e) == [w EXCEPT !.render_target[e] = None]

\* The application resizes a texture in Assets<Image>: what line 161 would
\* read from then on.
ResizeImage(w, texture, size) == [w EXCEPT !.image_size[texture] = size]

\* The application sets the target of a camera: what line 156 would read
\* from then on.
SetCameraTarget(w, camera, target) == [w EXCEPT !.cameras[camera].target = target]

----------------------------------------------------------------------------
(* The per-frame systems *)

\* PointerInput::new(pointer_id, location, action)
PointerInput(pointer_id, target, position, action) ==
    [pointer_id |-> pointer_id,
     location |-> [target |-> target, position |-> position],
     action |-> action]

\* PointerAction::Move { delta }, Press(button), Release(button)
Move(delta) == [kind |-> "Move", delta |-> delta]
Press(button) == [kind |-> "Press", button |-> button]
Release(button) == [kind |-> "Release", button |-> button]

\* The entities the query of drive_diegetic_pointer (lines 217-222) and of
\* send_pointer_input (lines 264-268) match: those that carry the surface,
\* its render target and its cursor position (Mesh3d is on every surface
\* entity of the model).
Matches(w, e) ==
    /\ w.surface[e].tag = "Some"
    /\ w.render_target[e].tag = "Some"
    /\ w.cursor[e].tag = "Some"

\* The filter of the ray cast (line 229): surfaces_check.contains(entity).
SurfacesCheck(w, e) == w.surface[e].tag = "Some"

\* Line 242 with the size of the texture left out.
PixelPositionUnscaled(size, uv) == uv

\* Line 242: render_target.size.as_vec2() * uv
PixelPosition(size, uv) == Vec2Mul(size, uv)

\* Line 243 with the comparison dropped: every hit counts as a change.
PositionChangedAlways(position, cursor_last) == TRUE

\* Line 243: position != cursor_last.0
PositionChanged(position, cursor_last) == position # cursor_last

\* Line 251 with the delta taken from the origin.
MoveDeltaFromOrigin(position, cursor_last) == position

\* Line 251: position - cursor_last.0
MoveDelta(position, cursor_last) == Vec2Sub(position, cursor_last)

\* Line 254 writing the position to every surface.
StoreCursorOnAll(w, cube, position) ==
    [w EXCEPT !.cursor = [e \in SurfaceEntities |->
                            IF @[e].tag = "Some" THEN Some(position) ELSE @[e]]]

\* Line 254 together with a refresh of the cached render target from the
\* root's camera and the texture as they are now.
StoreCursorRefreshTarget(w, cube, position) ==
    LET surface == w.surface[cube].value
        camera == w.cameras[w.ui_target_camera[surface.root].value]
    IN  [w EXCEPT !.cursor[cube] = Some(position),
                  !.render_target[cube] =
                      Some(WorldSpaceUiRenderTarget(camera.target,
                                                    w.image_size[surface.texture]))]

\* Line 254 left out: the position is reported and not stored.
StoreCursorDropped(w, cube, position) == w

\* Line 254: cursor_last.0 = position
StoreCursor(w, cube, position) == [w EXCEPT !.cursor[cube] = Some(position)]

\* The outcome of one iteration of the loop of lines 235-256.
Step(outcome, w, events) == [outcome |-> outcome, world |-> w, pointer_input |-> events]

\* The loop of lines 235-256 with a break after line 254: once a Move has been
\* written in the frame, the hits that follow are left unprocessed.
DriveHitFirstOnly(w, events, cube, h) ==
    IF events # <<>> THEN Step("next", w, events)
    ELSE IF ~Matches(w, cube) THEN Step("err", w, events)
    ELSE LET surface == w.surface[cube].value
             render_target == w.render_target[cube].value
             cursor_last == w.cursor[cube].value
             uv == GetRayMeshHitUv(h, MeshAsset(w.mesh3d[cube]))
         IN  IF uv.tag = "Panic" THEN Step("panic", w, events)
             ELSE IF uv.tag = "None" THEN Step("next", w, events)
             ELSE LET position == PixelPosition(render_target.size, uv.value)
                  IN  IF PositionChanged(position, cursor_last)
                      THEN Step("next",
                                StoreCursor(w, cube, position),
                                Append(events,
                                       PointerInput(surface.pointer_id,
                                                    render_target.target,
                                                    position,
                                                    Move(MoveDelta(position, cursor_last)))))
                      ELSE Step("next", w, events)

\* One iteration of the inner loop of drive_diegetic_pointer (lines 235-256)
\* for the pair (cube, h) of the ray cast.  Outcomes: "next" (on to the next
\* hit), "err" (the ? of line 236 returns the query error), "panic" (an
\* unwrap or an index panicked).  The mesh of a hit entity is in Assets<Mesh>
\* (the ray cast read it), so the unwrap of line 237 succeeds; the vector
\* hit_pointer_ids (lines 232, 241) is written and never read.
DriveHit(w, events, cube, h) ==
    IF ~Matches(w, cube) THEN Step("err", w, events)
    ELSE LET surface == w.surface[cube].value
             render_target == w.render_target[cube].value
             cursor_last == w.cursor[cube].value
             uv == GetRayMeshHitUv(h, MeshAsset(w.mesh3d[cube]))
         IN  IF uv.tag = "Panic" THEN Step("panic", w, events)
             ELSE IF uv.tag = "None" THEN Step("next", w, events)
             ELSE LET position == PixelPosition(render_target.size, uv.value)
                  IN  IF PositionChanged(position, cursor_last)
                      THEN Step("next",
                                StoreCursor(w, cube, position),
                                Append(events,
                                       PointerInput(surface.pointer_id,
                                                    render_target.target,
                                                    position,
                                                    Move(MoveDelta(position, cursor_last)))))
                      ELSE Step("next", w, events)

\* WindowEvent: MouseButtonInput(button, state) or another window event.
MouseButtonInput(button, state) ==
    [kind |-> "MouseButtonInput", button |-> button, state |-> state]
MouseButtons == {"Left", "Right", "Middle", "Back", "Other"}
ButtonStates == {"Pressed", "Released"}
WindowEvents ==
    {MouseButtonInput(b, st) : b \in MouseButtons, st \in ButtonStates}
    \cup {[kind |-> "CursorMoved"]}

\* Lines 275-280 with Back mapped to a pointer button instead of skipped.
PointerButtonWithBack(button) ==
    CASE button = "Left" -> Some("Primary")
      [] button = "Right" -> Some("Secondary")
      [] button = "Middle" -> Some("Middle")
      [] button = "Back" -> Some("Primary")
      [] OTHER -> None

\* Lines 275-280: the PointerButton of a MouseButton, None for `continue`.
PointerButton(button) ==
    CASE button = "Left" -> Some("Primary")
      [] button = "Right" -> Some("Secondary")
      [] button = "Middle" -> Some("Middle")
      [] OTHER -> None

\* Lines 281-284: the PointerAction of a button state.
ButtonAction(state, button) ==
    IF state = "Pressed" THEN Press(button) ELSE Release(button)

\* The order in which surfaces.iter() visits the entities.
SurfaceOrder == <<"S1", "S2">>

\* surfaces.iter(): the entities of the query, in order.
QueryIter(w) == SelectSeq(SurfaceOrder, LAMBDA e : Matches(w, e))

\* Lines 286-293: the PointerInput sent to surface e.
ButtonInput(w, e, action) ==
    PointerInput(w.surface[e].value.pointer_id,
                 w.render_target[e].value.target,
                 w.cursor[e].value,
                 action)

\* Lines 285-294 sending to the first surface of the query only.
BroadcastToFirst(w, events, action) ==
    LET es == QueryIter(w)
    IN  IF es = <<>> THEN events ELSE Append(events, ButtonInput(w, es[1], action))

\* Lines 285-294 sending every surface the position of the first one.
BroadcastSharedPosition(w, events, action) ==
    LET es == QueryIter(w)
    IN  events \o [k \in 1..Len(es) |->
                     PointerInput(w.surface[es[k]].value.pointer_id,
                                  w.render_target[es[k]].value.target,
                                  w.cursor[es[1]].value,
                                  action)]

\* Lines 285-294: one PointerInput per entity of the query.
Broadcast(w, events, action) ==
    LET es == QueryIter(w)
    IN  events \o [k \in 1..Len(es) |-> ButtonInput(w, es[k], action)]

\* One iteration of the loop of send_pointer_input (lines 273-296) for one
\* window event.
SendWindowEvent(w, events, ev) ==
    IF ev.kind # "MouseButtonInput" THEN events
    ELSE LET button == PointerButton(ev.button)
         IN  IF button.tag = "None" THEN events
             ELSE Broadcast(w, events, ButtonAction(ev.state, button.value))

----------------------------------------------------------------------------
(* Specification SpecUV: get_ray_mesh_hit_uv applied to bounded inputs *)

InitUV ==
    /\ mesh \in MeshSources
    /\ hit \in Hits
    /\ uv_result = NotComputed
    /\ world = EmptyWorld("present", Textures, [S1 |-> "Rectangle", S2 |-> "Rectangle"])
    /\ nOps = 0
    /\ pc = "idle"
    /\ cur = None
    /\ nHits = 0
    /\ nEvents = 0
    /\ window_event = None
    /\ pointer_input = <<>>
    /\ drive_result = "Ok"

\* A call of get_ray_mesh_hit_uv on the current inputs.
ComputeHitUv ==
    /\ uv_result = NotComputed
    /\ uv_result' = GetRayMeshHitUv(hit, Build(mesh))
    /\ UNCHANGED <<mesh, hit, world, nOps, frame_vars>>

NextUV == ComputeHitUv

SpecUV == InitUV /\ [][NextUV]_vars

----------------------------------------------------------------------------
(* Specification SpecLife: the lifecycle hooks under the application's      *)
(* inserts and removals                                                     *)

RectangleOnAll == [S1 |-> "Rectangle", S2 |-> "Rectangle"]

\* The components the application inserts: any root, texture and pointer id;
\* a default_material is given with pointer id P2 and not with P1.
SurfaceComponents ==
    {WorldSpaceUiSurface(r, t, p, IF p = "P1" THEN None ELSE Some("custom")) :
        r \in Roots, t \in Textures, p \in PointerIds}

InitLife ==
    /\ \E pw \in {"unregistered", "absent", "present"}, images \in {{"T1"}, Textures} :
          world = EmptyWorld(pw, images, RectangleOnAll)
    /\ nOps = 0
    /\ pc = "idle"
    /\ cur = None
    /\ nHits = 0
    /\ nEvents = 0
    /\ window_event = None
    /\ pointer_input = <<>>
    /\ drive_result = "Ok"
    /\ mesh = MeshSource(RectangleUvs, <<0, 1, 2, 0, 2, 3>>, "U32")
    /\ hit = RayMeshHit(None, <<BaryDen, 0, 0>>)
    /\ uv_result = NotComputed

\* The application inserts WorldSpaceUiRoot on a root entity.
AppInsertRoot ==
    \E e \in Roots, t \in Textures :
        /\ ~world.panicked
        /\ nOps < MaxOps
        /\ nOps' = nOps + 1
        /\ world' = InsertRoot(world, e, t)
        /\ UNCHANGED <<frame_vars, mesh, hit, uv_result>>

\* The application removes WorldSpaceUiRoot from a root entity.
AppRemoveRoot ==
    \E e \in Roots :
        /\ ~world.panicked
        /\ nOps < MaxOps
        /\ nOps' = nOps + 1
        /\ world.root[e].tag = "Some"
        /\ world' = RemoveRoot(world, e)
        /\ UNCHANGED <<frame_vars, mesh, hit, uv_result>>

\* The application inserts WorldSpaceUiSurface on a mesh entity.
AppInsertSurface ==
    \E e \in SurfaceEntities, c \in SurfaceComponents :
        /\ ~world.panicked
        /\ nOps < MaxOps
        /\ nOps' = nOps + 1
        /\ world' = InsertSurface(world, e, c)
        /\ UNCHANGED <<frame_vars, mesh, hit, uv_result>>

\* The application removes WorldSpaceUiSurface from a mesh entity.
AppRemoveSurface ==
    \E e \in SurfaceEntities :
        /\ ~world.panicked
        /\ nOps < MaxOps
        /\ nOps' = nOps + 1
        /\ world.surface[e].tag = "Some"
        /\ world' = RemoveSurface(world, e)
        /\ UNCHANGED <<frame_vars, mesh, hit, uv_result>>

\* The application removes WorldSpaceUiRenderTarget from a mesh entity.
AppRemoveRenderTarget ==
    \E e \in SurfaceEntities :
        /\ ~world.panicked
        /\ nOps < MaxOps
        /\ nOps' = nOps + 1
        /\ world.render_target[e].tag = "Some"
        /\ world' = RemoveRenderTarget(world, e)
        /\ UNCHANGED <<frame_vars, mesh, hit, uv_result>>

NextLife ==
    \/ AppInsertRoot
    \/ AppRemoveRoot
    \/ AppInsertSurface
    \/ AppRemoveSurface
    \/ AppRemoveRenderTarget

SpecLife == InitLife /\ [][NextLife]_vars

----------------------------------------------------------------------------
(* Specification Spec: frames of the two chained systems, after setup *)

\* Setup as in examples/render_ui_on_two_quads.rs: two roots with a texture
\* each, and one surface per root with its own pointer id.
TwoQuadSetup(w, surface2) ==
    InsertSurface(
        InsertSurface(
            InsertRoot(InsertRoot(w, "R1", "T1"), "R2", "T2"),
            "S1", WorldSpaceUiSurface("R1", "T1", "P1", None)),
        "S2", surface2)

OwnRootSurface == WorldSpaceUiSurface("R2", "T2", "P2", None)

\* The two-quad example.
TwoQuads ==
    TwoQuadSetup(EmptyWorld("present", Textures, RectangleOnAll), OwnRootSurface)

\* Setup as in examples/render_ui_on_quad.rs: one root, one surface.
OneQuad ==
    InsertSurface(
        InsertRoot(EmptyWorld("present", Textures, RectangleOnAll), "R1", "T1"),
        "S1", WorldSpaceUiSurface("R1", "T1", "P1", None))

\* Two surfaces on the same root and texture, with the same pointer id.
SharedRoot ==
    TwoQuadSetup(EmptyWorld("present", Textures, RectangleOnAll),
                 WorldSpaceUiSurface("R1", "T1", "P1", None))

\* The second quad's mesh has no UV attribute.
NoUvQuad ==
    TwoQuadSetup(EmptyWorld("present", Textures, [S1 |-> "Rectangle", S2 |-> "NoUv"]),
                 OwnRootSurface)

\* The application removed the second quad's WorldSpaceUiRenderTarget.
LostTarget ==
    RemoveRenderTarget(
        TwoQuadSetup(EmptyWorld("present", Textures, RectangleOnAll), OwnRootSurface),
        "S2")

\* The one-quad setup, after which the application resized the texture and
\* pointed the root's camera at the other texture.
ChangedAfterSetup ==
    SetCameraTarget(
        ResizeImage(
            InsertSurface(
                InsertRoot(EmptyWorld("present", Textures, RectangleOnAll), "R1", "T1"),
                "S1", WorldSpaceUiSurface("R1", "T1", "P1", None)),
            "T1", <<4, 3>>),
        1, ImageTarget("T2"))

SetupWorlds == {TwoQuads, OneQuad, SharedRoot, NoUvQuad, LostTarget, ChangedAfterSetup}

\* A hit inside the quad: on its second triangle, at a UV with both
\* coordinates strictly between 0 and 1.
InnerHit == RayMeshHit(Some(1), <<1, 0, BaryDen - 1>>)

\* The hits the ray cast reports at the corners of a quad: a triangle of the
\* quad and a corner of it.
FrameHits ==
    {RayMeshHit(Some(t), b) :
        t \in 0..1,
        b \in {<<BaryDen, 0, 0>>, <<0, BaryDen, 0>>, <<0, 0, BaryDen>>}}

\* The hits the ray cast reports on a surface: the corners of its quad and,
\* on the second quad, the hit inside it.
HitsOn(cube) == IF cube = "S2" THEN FrameHits \cup {InnerHit} ELSE FrameHits

Init ==
    /\ world \in SetupWorlds
    /\ nOps = 0
    /\ pc = "idle"
    /\ cur = None
    /\ nHits = 0
    /\ nEvents = 0
    /\ window_event = None
    /\ pointer_input = <<>>
    /\ drive_result = "Ok"
    /\ mesh = MeshSource(RectangleUvs, <<0, 1, 2, 0, 2, 3>>, "U32")
    /\ hit = RayMeshHit(None, <<BaryDen, 0, 0>>)
    /\ uv_result = NotComputed

\* The schedule First starts a frame: the events of the frame before have
\* been consumed, and the chain starts with drive_diegetic_pointer.
BeginFrame ==
    /\ pc = "idle"
    /\ pc' = "drive"
    /\ cur' = None
    /\ nHits' = 0
    /\ nEvents' = 0
    /\ window_event' = None
    /\ pointer_input' = <<>>
    /\ drive_result' = "Ok"
    /\ UNCHANGED <<world, nOps, mesh, hit, uv_result>>

\* drive_diegetic_pointer takes the next (cube, hit) of the ray casts.  On a
\* query error the system returns it: ECS error handling either panics (the
\* default handler) or reports it, and then the chain goes on.
DriveNextHit ==
    /\ pc = "drive"
    /\ nHits < MaxHits
    /\ \E cube \in SurfaceEntities :
       \E h \in HitsOn(cube) :
          /\ SurfacesCheck(world, cube)
          /\ LET step == DriveHit(world, pointer_input, cube, h)
             IN  /\ world' = step.world
                 /\ pointer_input' = step.pointer_input
                 /\ cur' = Some([cube |-> cube, hit |-> h])
                 /\ nHits' = nHits + 1
                 /\ CASE step.outcome = "next" ->
                            pc' = "drive" /\ drive_result' = drive_result
                      [] step.outcome = "err" ->
                            pc' \in {"send", "panicked"} /\ drive_result' = "Err"
                      [] OTHER ->
                            pc' = "panicked" /\ drive_result' = drive_result
    /\ UNCHANGED <<nOps, nEvents, window_event, mesh, hit, uv_result>>

\* The ray casts are exhausted: drive_diegetic_pointer returns Ok(()), and
\* the chain runs send_pointer_input.
DriveReturn ==
    /\ pc = "drive"
    /\ pc' = "send"
    /\ UNCHANGED <<world, nOps, cur, nHits, nEvents, window_event, pointer_input,
                   drive_result,
                   mesh, hit, uv_result>>

\* send_pointer_input without the chain of line 49: it reads a window event
\* while drive_diegetic_pointer has not returned.
SendNextWindowEventUnchained ==
    /\ pc \in {"drive", "send"}
    /\ nEvents < MaxWindowEvents
    /\ \E ev \in WindowEvents :
          /\ window_event' = Some(ev)
          /\ pointer_input' = SendWindowEvent(world, pointer_input, ev)
    /\ nEvents' = nEvents + 1
    /\ UNCHANGED <<world, nOps, pc, cur, nHits, drive_result, mesh, hit, uv_result>>

\* send_pointer_input with the query's PreviousCursorPosition taken mutably
\* and cleared once a release has been sent.
SendNextWindowEventClearing ==
    /\ pc = "send"
    /\ nEvents < MaxWindowEvents
    /\ \E ev \in WindowEvents :
          /\ window_event' = Some(ev)
          /\ pointer_input' = SendWindowEvent(world, pointer_input, ev)
          /\ world' =
                IF ev.kind = "MouseButtonInput" /\ ev.state = "Released"
                THEN [world EXCEPT !.cursor =
                        [S1 |-> IF Matches(world, "S1") THEN Some(<<0, 0>>) ELSE @.S1,
                         S2 |-> IF Matches(world, "S2") THEN Some(<<0, 0>>) ELSE @.S2]]
                ELSE world
    /\ nEvents' = nEvents + 1
    /\ UNCHANGED <<nOps, pc, cur, nHits, drive_result, mesh, hit, uv_result>>

\* send_pointer_input reads the next window event.
SendNextWindowEvent ==
    /\ pc = "send"
    /\ nEvents < MaxWindowEvents
    /\ \E ev \in WindowEvents :
          /\ window_event' = Some(ev)
          /\ pointer_input' = SendWindowEvent(world, pointer_input, ev)
    /\ nEvents' = nEvents + 1
    /\ UNCHANGED <<world, nOps, pc, cur, nHits, drive_result, mesh, hit, uv_result>>

\* The window events are exhausted: send_pointer_input returns and the frame
\* ends.
SendReturn ==
    /\ pc = "send"
    /\ pc' = "idle"
    /\ UNCHANGED <<world, nOps, cur, nHits, nEvents, window_event, pointer_input,
                   drive_result,
                   mesh, hit, uv_result>>

Next ==
    \/ BeginFrame
    \/ DriveNextHit
    \/ DriveReturn
    \/ SendNextWindowEvent
    \/ SendReturn

Spec == Init /\ [][Next]_vars

----------------------------------------------------------------------------
(* Specification SpecFirstFrame: the frames that start from the world as    *)
(* the setup left it, every surface newly created                           *)

\* The schedule starts a frame while no surface has been moved since setup.
FirstFrame ==
    /\ world \in SetupWorlds
    /\ BeginFrame

NextFirstFrame ==
    \/ FirstFrame
    \/ DriveNextHit
    \/ DriveReturn
    \/ SendNextWindowEvent
    \/ SendReturn

SpecFirstFrame == Init /\ [][NextFirstFrame]_vars

----------------------------------------------------------------------------
(* Properties of the ray pass and the button pass (specification Spec) *)

\* A step of the ray pass that processed the hit cur'.
IsDriveStep == pc = "drive" /\ nHits' = nHits + 1

\* A step of send_pointer_input that read window_event'.
IsSendStep == pc = "send" /\ nEvents' = nEvents + 1

\* The events a step wrote.
Written == SubSeq(pointer_input', Len(pointer_input) + 1, Len(pointer_input'))

\* The pixel position of hit h on surface cube in world w, when the hit is
\* processed that far: None otherwise.
HitPosition(w, cube, h) ==
    IF ~Matches(w, cube) THEN None
    ELSE LET uv == GetRayMeshHitUv(h, MeshAsset(w.mesh3d[cube]))
         IN  IF uv.tag = "Some"
             THEN Some(Vec2Mul(w.render_target[cube].value.size, uv.value))
             ELSE None

\* C1: a processed hit whose pixel position equals the surface's stored
\* PreviousCursorPosition writes no event and leaves every stored position
\* unchanged; a step writes a Move event only when it is a hit whose position
\* differs from the stored one.
C1_NoDuplicateMove ==
    [][/\ IsDriveStep =>
            LET cube == cur'.value.cube
                position == HitPosition(world, cube, cur'.value.hit)
            IN  (position.tag = "Some" /\ position.value = world.cursor[cube].value)
                    => (Written = <<>> /\ world'.cursor = world.cursor)
       /\ \A k \in 1..Len(Written) :
            Written[k].action.kind = "Move" =>
                /\ IsDriveStep
                /\ LET cube == cur'.value.cube
                       position == HitPosition(world, cube, cur'.value.hit)
                   IN  position.tag = "Some" /\ position.value # world.cursor[cube].value
      ]_vars

\* C1 witness: the first hit of a frame lies at the position the surface
\* kept from an earlier frame, away from the origin, and wrote nothing.
C1_Witness ==
    /\ pc = "drive"
    /\ nHits = 1
    /\ pointer_input = <<>>
    /\ LET position == HitPosition(world, cur.value.cube, cur.value.hit)
       IN  /\ position.tag = "Some"
           /\ position.value = world.cursor[cur.value.cube].value
           /\ position.value # <<0, 0>>

\* C2: every Move event carries the new pixel position, its delta is the new
\* position minus the surface's PreviousCursorPosition before the event, and
\* after the event the surface's PreviousCursorPosition is the new position.
C2_MoveDelta ==
    [][\A k \in 1..Len(Written) :
            Written[k].action.kind = "Move" =>
                LET cube == cur'.value.cube
                    position == HitPosition(world, cube, cur'.value.hit)
                IN  /\ Len(Written) = 1
                    /\ position.tag = "Some"
                    /\ Written[k].location.position = position.value
                    /\ Written[k].action.delta =
                            Vec2Sub(position.value, world.cursor[cube].value)
                    /\ world'.cursor[cube] = Some(position.value)
      ]_vars

\* C2 witness: a Move from a position away from the origin has just been
\* written, so its delta differs from its position.
C2_Witness ==
    /\ pc = "drive"
    /\ nHits >= 1
    /\ pointer_input # <<>>
    /\ LET event == pointer_input[Len(pointer_input)]
       IN  /\ event.action.kind = "Move"
           /\ event.action.delta # event.location.position
           /\ event.action.delta[1] < 0
           /\ world.cursor[cur.value.cube] = Some(event.location.position)

\* The surfaces registered with the button pass: the entities that carry
\* WorldSpaceUiSurface with the render target and cursor position its
\* registration attached.
Registered(w) == {e \in SurfaceEntities : Matches(w, e)}

\* C3: for every press or release of Left, Right or Middle that
\* send_pointer_input reads, exactly one Press/Release event is written for
\* every registered surface, hit in this frame or not, and it carries that
\* surface's own pointer id, render target and PreviousCursorPosition.
C3_BroadcastToEverySurface ==
    [][(/\ IsSendStep
        /\ window_event'.value.kind = "MouseButtonInput"
        /\ window_event'.value.button \in {"Left", "Right", "Middle"})
       => /\ Len(Written) = Cardinality(Registered(world))
          /\ \E f \in [1..Len(Written) -> Registered(world)] :
                /\ \A e \in Registered(world) : \E k \in 1..Len(Written) : f[k] = e
                /\ \A k \in 1..Len(Written) :
                      /\ Written[k].action.kind =
                            (IF window_event'.value.state = "Pressed"
                             THEN "Press" ELSE "Release")
                      /\ Written[k].pointer_id = world.surface[f[k]].value.pointer_id
                      /\ Written[k].location.target =
                            world.render_target[f[k]].value.target
                      /\ Written[k].location.position = world.cursor[f[k]].value
      ]_vars

\* C3 witness: a press reached two surfaces at different positions in a
\* frame in which only the first of them was hit.
C3_Witness ==
    /\ pc = "send"
    /\ nEvents = 1
    /\ nHits = 1
    /\ cur.value.cube = "S1"
    /\ Len(pointer_input) = 3
    /\ pointer_input[2].action.kind = "Press"
    /\ pointer_input[3].action.kind = "Press"
    /\ pointer_input[2].pointer_id = "P1"
    /\ pointer_input[3].pointer_id = "P2"
    /\ pointer_input[2].location.position # pointer_input[3].location.position
    /\ pointer_input[3].location.position # <<0, 0>>

\* C4: with two surfaces of distinct pointer ids, a hit on one changes only
\* that surface's PreviousCursorPosition and writes only events that carry
\* its pointer id and its render target.
C4_NoCrossContamination ==
    [][IsDriveStep =>
        \A a \in SurfaceEntities, b \in SurfaceEntities :
            (/\ a = cur'.value.cube
             /\ b # a
             /\ world.surface[b].tag = "Some"
             /\ world.surface[a].value.pointer_id # world.surface[b].value.pointer_id)
            => /\ world'.cursor[b] = world.cursor[b]
               /\ \A k \in 1..Len(Written) :
                    /\ Written[k].pointer_id = world.surface[a].value.pointer_id
                    /\ Written[k].location.target = world.render_target[a].value.target
      ]_vars

\* C4 witness: the first quad has just been moved while the second quad
\* keeps a position of its own.
C4_Witness ==
    /\ world.surface["S1"].tag = "Some"
    /\ world.surface["S2"].tag = "Some"
    /\ world.surface["S1"].value.pointer_id # world.surface["S2"].value.pointer_id
    /\ pc = "drive"
    /\ nHits = 1
    /\ cur.value.cube = "S1"
    /\ Len(pointer_input) = 1
    /\ pointer_input[1].pointer_id = "P1"
    /\ pointer_input[1].location.target = ImageTarget("T1")
    /\ world.cursor["S2"].value # <<0, 0>>
    /\ world.cursor["S2"] # world.cursor["S1"]

\* C7: a mesh without UV attribute gives None for every hit, and the ray
\* pass skips a hit on it: the step writes no event, changes nothing in the
\* world, and the pass goes on to the next hit.
C7_NoUvSkipsHit ==
    [][IsDriveStep =>
        LET cube == cur'.value.cube
            m == MeshAsset(world.mesh3d[cube])
        IN  (Matches(world, cube) /\ m.uv.format = "Absent")
            => /\ \A h \in Hits : GetRayMeshHitUv(h, m) = None
               /\ Written = <<>>
               /\ world' = world
               /\ pc' = "drive"
               /\ drive_result' = "Ok"
      ]_vars

\* C7 witness: the second hit of a frame fell on the quad without UVs, after
\* a first hit that moved a cursor; the pass is still running.
C7_Witness ==
    /\ pc = "drive"
    /\ nHits = 2
    /\ MeshAsset(world.mesh3d[cur.value.cube]).uv.format = "Absent"
    /\ Matches(world, cur.value.cube)
    /\ Len(pointer_input) = 1
    /\ world.cursor[cur.value.cube] = Some(<<0, 0>>)

\* C8: send_pointer_input maps Left to Primary, Right to Secondary and
\* Middle to Middle, Pressed to Press and Released to Release; an event for
\* another button, or a window event that is no mouse-button input, writes
\* nothing.
C8_ButtonMapping ==
    [][IsSendStep =>
        LET ev == window_event'.value
        IN  IF ev.kind = "MouseButtonInput" /\ ev.button \in {"Left", "Right", "Middle"}
            THEN /\ Written # <<>>
                 /\ \A k \in 1..Len(Written) :
                      /\ Written[k].action.kind =
                            (CASE ev.state = "Pressed" -> "Press"
                               [] ev.state = "Released" -> "Release")
                      /\ Written[k].action.button =
                            (CASE ev.button = "Left" -> "Primary"
                               [] ev.button = "Right" -> "Secondary"
                               [] ev.button = "Middle" -> "Middle")
            ELSE Written = <<>>
      ]_vars

\* C8 witness: a release of the right button has been sent as
\* Release(Secondary).
C8_Witness ==
    /\ pc = "send"
    /\ nEvents = 1
    /\ window_event = Some(MouseButtonInput("Right", "Released"))
    /\ pointer_input # <<>>
    /\ pointer_input[Len(pointer_input)].action = Release("Secondary")

\* C13: for a hit with UV (u,v) on a surface whose cached render target has
\* size (W,H), the position the ray pass leaves in PreviousCursorPosition,
\* and puts in the Location of the event it writes, is (u*W, v*H).
C13_PixelPosition ==
    [][IsDriveStep =>
        LET cube == cur'.value.cube
            uv == GetRayMeshHitUv(cur'.value.hit, MeshAsset(world.mesh3d[cube]))
        IN  (Matches(world, cube) /\ uv.tag = "Some")
            => LET size == world.render_target[cube].value.size
                   position == <<uv.value[1] * size[1], uv.value[2] * size[2]>>
               IN  /\ world'.cursor[cube] = Some(position)
                   /\ \A k \in 1..Len(Written) :
                         Written[k].location.position = position
      ]_vars

\* C13 witness: a hit inside the quad, on a texture that is not square, has
\* written a Move to (u*W, v*H) with 0 < u < 1 and 0 < v < 1.
C13_Witness ==
    /\ pc = "drive"
    /\ nHits >= 1
    /\ cur.value.hit = InnerHit
    /\ Matches(world, cur.value.cube)
    /\ pointer_input # <<>>
    /\ LET cube == cur.value.cube
           size == world.render_target[cube].value.size
           uv == GetRayMeshHitUv(InnerHit, MeshAsset(world.mesh3d[cube])).value
           event == pointer_input[Len(pointer_input)]
       IN  /\ size[1] # size[2]
           /\ uv[1] > 0 /\ uv[1] < BaryDen
           /\ uv[2] > 0 /\ uv[2] < BaryDen
           /\ event.action.kind = "Move"
           /\ event.location.position = <<uv[1] * size[1], uv[2] * size[2]>>
           /\ world.cursor[cube] = Some(<<uv[1] * size[1], uv[2] * size[2]>>)

\* A Press or Release event.
IsButtonEvent(event) == event.action.kind \in {"Press", "Release"}

\* The Move events at the head of the frame's events.
MovesWritten ==
    Cardinality({k \in 1..Len(pointer_input) : pointer_input[k].action.kind = "Move"})

\* C14: in every frame drive_diegetic_pointer has returned before
\* send_pointer_input writes: no Move event of a frame follows a Press or
\* Release event of the frame, button events exist only once the ray pass is
\* over, and every button event carries the position its surface has after
\* the frame's ray pass (the k-th event of a broadcast goes to the k-th
\* surface of the query).
C14_DriveBeforeSend ==
    LET es == QueryIter(world)
    IN  \A k \in 1..Len(pointer_input) :
            IsButtonEvent(pointer_input[k]) =>
                /\ pc \in {"send", "idle"}
                /\ \A j \in (k + 1)..Len(pointer_input) : IsButtonEvent(pointer_input[j])
                /\ es # <<>>
                /\ LET e == es[((k - MovesWritten - 1) % Len(es)) + 1]
                   IN  /\ pointer_input[k].pointer_id = world.surface[e].value.pointer_id
                       /\ pointer_input[k].location.position = world.cursor[e].value

\* C14 witness: a frame moved a surface away from the position an earlier
\* frame left, and the Press that followed in the same frame carries the new
\* position.
C14_Witness ==
    /\ pc = "send"
    /\ Len(pointer_input) >= 2
    /\ pointer_input[1].action.kind = "Move"
    /\ pointer_input[1].action.delta # pointer_input[1].location.position
    /\ pointer_input[2].action.kind = "Press"
    /\ pointer_input[2].pointer_id = pointer_input[1].pointer_id
    /\ pointer_input[2].location.position = pointer_input[1].location.position

\* C15: when the query does not resolve the hit entity, the ray pass stops
\* at that hit and returns the error: the step writes nothing and changes
\* nothing, no later hit of the frame is processed, and the failure stays in
\* that frame: the application goes on to its next frame.
C15_ErrorConfinedToFrame ==
    [][/\ (IsDriveStep /\ ~Matches(world, cur'.value.cube))
            => /\ Written = <<>>
               /\ world' = world
               /\ drive_result' = "Err"
               /\ pc' # "drive"
               /\ pc' # "panicked"
       /\ drive_result = "Err" => ~IsDriveStep
      ]_vars

\* C16: the ray pass has no early exit: a hit taken after other hits of the
\* frame is processed like the first, so a surface hit after (behind) another
\* one has its PreviousCursorPosition set to the hit's position, and its Move
\* event written when that position is new.
C16_NoEarlyExit ==
    [][(IsDriveStep /\ nHits >= 1) =>
        LET cube == cur'.value.cube
            position == HitPosition(world, cube, cur'.value.hit)
        IN  position.tag = "Some"
            => /\ world'.cursor[cube] = Some(position.value)
               /\ position.value # world.cursor[cube].value
                    => /\ Len(Written) = 1
                       /\ Written[1].action.kind = "Move"
                       /\ Written[1].pointer_id = world.surface[cube].value.pointer_id
                       /\ Written[1].location.position = position.value
      ]_vars

\* C16 witness: two hits of one frame, the second on another surface than the
\* first, have each moved their surface and written its Move event.
C16_Witness ==
    /\ pc = "drive"
    /\ nHits = 2
    /\ cur.value.cube = "S2"
    /\ Len(pointer_input) = 2
    /\ pointer_input[1].action.kind = "Move"
    /\ pointer_input[2].action.kind = "Move"
    /\ pointer_input[1].pointer_id = "P1"
    /\ pointer_input[2].pointer_id = "P2"
    /\ world.cursor["S1"] = Some(pointer_input[1].location.position)
    /\ world.cursor["S2"] = Some(pointer_input[2].location.position)

\* The surface of the last hit the ray pass processed holds the pixel
\* position of that hit, when the hit has a UV.
LastHitWins ==
    (nHits >= 1 /\ cur.tag = "Some") =>
        LET position == HitPosition(world, cur.value.cube, cur.value.hit)
        IN  position.tag = "Some" => world.cursor[cur.value.cube] = Some(position.value)

\* C17: when several hits of a frame fall on one surface, each is compared
\* with the position the hit before it left: a Move with the delta from that
\* position is written exactly when the positions differ, the hit's position
\* is stored, and a hit on another surface leaves the stored position, so
\* that at the end of the pass the surface holds the position of the last
\* processed hit on it.
C17_LastHitWins ==
    [][/\ (pc = "drive" /\ pc' = "send" /\ nHits' = nHits) => LastHitWins
       /\ IsDriveStep =>
            LET cube == cur'.value.cube
                position == HitPosition(world, cube, cur'.value.hit)
            IN  /\ \A e \in SurfaceEntities \ {cube} : world'.cursor[e] = world.cursor[e]
                /\ position.tag = "Some" =>
                    /\ world'.cursor[cube] = Some(position.value)
                    /\ (nHits >= 1 /\ cur.value.cube = cube)
                        => LET before == HitPosition(world, cube, cur.value.hit)
                           IN  before.tag = "Some" =>
                                /\ world.cursor[cube] = Some(before.value)
                                /\ IF position.value = before.value
                                   THEN Written = <<>>
                                   ELSE /\ Len(Written) = 1
                                        /\ Written[1].action =
                                             Move(Vec2Sub(position.value, before.value))
                                        /\ Written[1].location.position = position.value
      ]_vars

\* C17 witness: two hits of one frame on the same surface at different
\* positions; each wrote a Move, the second with the delta from the first,
\* and the surface holds the position of the second.
C17_Witness ==
    /\ pc = "drive"
    /\ nHits = 2
    /\ Len(pointer_input) = 2
    /\ pointer_input[1].action.kind = "Move"
    /\ pointer_input[2].action.kind = "Move"
    /\ pointer_input[1].pointer_id = pointer_input[2].pointer_id
    /\ world.surface["S2"].tag = "Some"
    /\ world.surface["S1"].value.pointer_id # world.surface["S2"].value.pointer_id
    /\ pointer_input[1].location.position # <<0, 0>>
    /\ pointer_input[2].location.position # pointer_input[1].location.position
    /\ pointer_input[2].action.delta =
          Vec2Sub(pointer_input[2].location.position, pointer_input[1].location.position)
    /\ world.cursor[cur.value.cube] = Some(pointer_input[2].location.position)

CreationRenderTarget(w, e) ==
    [target |-> ImageTarget(w.root[w.surface[e].value.root].value.texture),
     size |-> ImageSize(w.surface[e].value.texture)]

\* C20: a surface's WorldSpaceUiRenderTarget is the value computed at its
\* creation in every state, also when the texture's size or the camera's
\* target has changed since; no step of a frame changes it, and the ray
\* pass computes pixel positions from the size cached at creation.
C20_RenderTargetWrittenOnce ==
    [][/\ \A e \in SurfaceEntities :
            Matches(world, e) =>
                world.render_target[e] = Some(CreationRenderTarget(world, e))
       /\ world'.render_target = world.render_target
       /\ IsDriveStep =>
            LET cube == cur'.value.cube
                uv == GetRayMeshHitUv(cur'.value.hit, MeshAsset(world.mesh3d[cube]))
            IN  (Matches(world, cube) /\ uv.tag = "Some")
                => world'.cursor[cube] =
                      Some(Vec2Mul(CreationRenderTarget(world, cube).size, uv.value))
      ]_vars

\* C20 witness: after the texture was resized and the camera retargeted, a
\* frame has moved the surface to a position computed from the size cached at
\* creation, to the target cached at creation.
C20_Witness ==
    /\ pc = "send"
    /\ world.image_size["T1"] # ImageSize("T1")
    /\ world.cameras[world.ui_target_camera["R1"].value].target # ImageTarget("T1")
    /\ world.render_target["S1"] =
          Some([target |-> ImageTarget("T1"), size |-> ImageSize("T1")])
    /\ Len(pointer_input) >= 1
    /\ pointer_input[1].action.kind = "Move"
    /\ pointer_input[1].location.target = ImageTarget("T1")
    /\ pointer_input[1].location.position = Vec2Scale(BaryDen, ImageSize("T1"))
    /\ world.cursor["S1"] = Some(Vec2Scale(BaryDen, ImageSize("T1")))

\* C21: a newly created surface starts with PreviousCursorPosition (0,0):
\* the first hit of the first frame writes a Move exactly when its pixel
\* position differs from (0,0), with a delta equal to its position, and a
\* button event sent to a surface no hit has fallen on carries (0,0).
C21_StartsAtOrigin ==
    [][/\ (pc = "idle" /\ pc' = "drive") =>
            \A e \in SurfaceEntities :
                world.surface[e].tag = "Some" => world.cursor[e] = Some(<<0, 0>>)
       /\ (IsDriveStep /\ nHits = 0) =>
            LET position == HitPosition(world, cur'.value.cube, cur'.value.hit)
            IN  IF position.tag = "Some" /\ position.value # <<0, 0>>
                THEN /\ Len(Written) = 1
                     /\ Written[1].action = Move(position.value)
                     /\ Written[1].location.position = position.value
                ELSE Written = <<>>
       /\ IsSendStep =>
            LET es == QueryIter(world)
            IN  \A k \in 1..Len(Written) :
                    (nHits = 0 \/ (nHits = 1 /\ cur.value.cube # es[k]))
                    => Written[k].location.position = <<0, 0>>
      ]_vars

\* C21 witness: in the first frame one hit moved the first quad away from
\* (0,0) with a delta equal to its position, and the Press that followed
\* reached the first quad there and the second quad, never hit, at (0,0).
C21_Witness ==
    /\ pc = "send"
    /\ nHits = 1
    /\ cur.value.cube = "S1"
    /\ Len(pointer_input) = 3
    /\ pointer_input[1].action.kind = "Move"
    /\ pointer_input[1].location.position # <<0, 0>>
    /\ pointer_input[1].action.delta = pointer_input[1].location.position
    /\ pointer_input[2].action.kind = "Press"
    /\ pointer_input[2].location.position = pointer_input[1].location.position
    /\ pointer_input[3].action.kind = "Press"
    /\ pointer_input[3].pointer_id = "P2"
    /\ pointer_input[3].location.position = <<0, 0>>

----------------------------------------------------------------------------
(* Properties of get_ray_mesh_hit_uv (specification SpecUV) *)

\* The mesh forms that carry the UVs of the triangle list.
UvForms == {"U16", "U32", "NonIndexed"}

\* The call was made on a mesh with UVs and a hit on one of its triangles.
ValidCall ==
    /\ uv_result # NotComputed
    /\ mesh.form \in UvForms
    /\ hit.triangle_index.tag = "Some"
    /\ 3 * hit.triangle_index.value + 3 <= Len(mesh.tl)

\* UV corner j (0, 1, 2) of the hit triangle, from the triangle list.
Corner(j) == At(mesh.uvs, mesh.tl[3 * hit.triangle_index.value + j + 1])

\* C5: for barycentric coordinates (b0,b1,b2) and UV corners (uv0,uv1,uv2)
\* the result is b2*uv0 + b0*uv1 + b1*uv2; barycentric (1,0,0) gives uv1.
C5_BarycentricPermutation ==
    ValidCall =>
        LET b == hit.barycentric_coords
        IN  /\ uv_result =
                Some(<<b[3] * Corner(0)[1] + b[1] * Corner(1)[1] + b[2] * Corner(2)[1],
                       b[3] * Corner(0)[2] + b[1] * Corner(1)[2] + b[2] * Corner(2)[2]>>)
            /\ b = <<BaryDen, 0, 0>> => uv_result = Some(Vec2Scale(BaryDen, Corner(1)))

\* C5 witness: the spec's test, uv0=(0,0), uv1=(1,0), uv2=(0,1) with
\* barycentric (1,0,0), has given uv1.
C5_Witness ==
    /\ ValidCall
    /\ hit.barycentric_coords = <<BaryDen, 0, 0>>
    /\ Corner(0) = <<0, 0>>
    /\ Corner(1) = <<1, 0>>
    /\ Corner(2) = <<0, 1>>
    /\ uv_result = Some(<<BaryDen, 0>>)

\* C6: the same triangle list as 16-bit indexed, 32-bit indexed and
\* non-indexed mesh gives the same result for the same hit.
C6_SameUvInEveryForm ==
    (uv_result # NotComputed /\ mesh.form \in UvForms) =>
        \A f \in UvForms :
            GetRayMeshHitUv(hit, Build(MeshSource(mesh.uvs, mesh.tl, f))) = uv_result

\* C6 witness: a hit on the second triangle of the non-indexed quad, whose
\* UV is not the one the same weights give on the first triangle.
C6_Witness ==
    /\ ValidCall
    /\ mesh.form = "NonIndexed"
    /\ hit.triangle_index = Some(1)
    /\ uv_result.tag = "Some"
    /\ uv_result #
         GetRayMeshHitUv(RayMeshHit(Some(0), hit.barycentric_coords),
                         Build(MeshSource(mesh.uvs, mesh.tl, "U16")))

\* C22: get_ray_mesh_hit_uv is total: for every hit and every mesh it
\* returns Some(uv) or None and does not panic, also for a hit without
\* triangle index, for a triangle index past the end of the index or UV
\* buffer, and for a UV attribute in another format than Float32x2.
C22_NeverPanics ==
    uv_result # NotComputed => uv_result.tag \in {"Some", "None"}

----------------------------------------------------------------------------
(* Properties of the lifecycle hooks (specification SpecLife) *)

\* The cameras the on_add hook of root e has spawned.
CamerasOf(w, e) == {k \in 1..Len(w.cameras) : w.cameras[k].spawned_for = e}

\* C9: after any sequence of lifecycle operations on an entity, exactly one
\* render camera has been created for a root, it targets the root's texture
\* and the root's UiTargetCamera refers to it.
C9_OneCameraPerRoot ==
    \A e \in Roots :
        world.root[e].tag = "Some" =>
            /\ Cardinality(CamerasOf(world, e)) = 1
            /\ \A k \in CamerasOf(world, e) :
                  /\ world.cameras[k].target = ImageTarget(world.root[e].value.texture)
                  /\ world.ui_target_camera[e] = Some(k)

\* A step in which the on_add hook of WorldSpaceUiSurface ran for e.
SurfaceAdded(e) == world.surface[e].tag = "None" /\ world'.surface[e].tag = "Some"

\* The hook for e finds the root's camera and the texture.
RootAndTextureReady(e) ==
    /\ world.ui_target_camera[world'.surface[e].value.root].tag = "Some"
    /\ world'.surface[e].value.texture \in world.images

\* C10 as stated: creating a surface fails when no entity carries
\* PrimaryWindow, even though the root has a camera and the texture is
\* loaded.
C10_FailsWithoutPrimaryWindow ==
    [][\A e \in SurfaceEntities :
          (/\ SurfaceAdded(e)
           /\ RootAndTextureReady(e)
           /\ world.primary_window # "present")
          => world'.panicked
      ]_vars

\* C10 amended: with the root's camera and the texture in place, creating a
\* surface while no entity carries PrimaryWindow fails only when PrimaryWindow
\* is not a registered component; when it is registered (on no entity) the
\* creation succeeds and caches the image target of the root's camera and the
\* size of the texture.
C10_FailsOnlyIfUnregistered ==
    [][\A e \in SurfaceEntities :
          (/\ SurfaceAdded(e)
           /\ RootAndTextureReady(e)
           /\ world.primary_window # "present")
          => LET surface == world'.surface[e].value
                 camera == world.cameras[world.ui_target_camera[surface.root].value]
             IN  IF world.primary_window = "unregistered"
                 THEN world'.panicked /\ world'.render_target[e] = world.render_target[e]
                 ELSE /\ ~world'.panicked
                      /\ world'.render_target[e] =
                            Some(WorldSpaceUiRenderTarget(camera.target,
                                                          ImageSize(surface.texture)))
      ]_vars

\* C10 witness: a surface was created, with its render target, in a world
\* where no entity carries PrimaryWindow.
C10_Witness ==
    /\ world.primary_window = "absent"
    /\ ~world.panicked
    /\ \E e \in SurfaceEntities :
          /\ world.surface[e].tag = "Some"
          /\ world.render_target[e].tag = "Some"
          /\ world.mesh_material[e].tag = "Some"

\* C11: creating a surface whose root has no UiTargetCamera, or whose
\* texture is not in the image assets, fails: the hook panics, and the
\* creation attaches no MeshMaterial3d and no WorldSpaceUiRenderTarget to the
\* surface and spawns no virtual pointer.
C11_FailsWithoutCameraOrTexture ==
    [][\A e \in SurfaceEntities :
          (/\ SurfaceAdded(e)
           /\ \/ world.ui_target_camera[world'.surface[e].value.root].tag = "None"
              \/ world'.surface[e].value.texture \notin world.images)
          => /\ world'.panicked
             /\ world'.mesh_material[e] = world.mesh_material[e]
             /\ world'.render_target[e] = world.render_target[e]
             /\ world'.pointers = world.pointers
      ]_vars

\* C11 witness: with a primary window and the root's camera in place, the
\* creation of a surface whose texture is not loaded has failed and left the
\* entity without material and render target, and the world without pointer.
C11_Witness ==
    /\ world.panicked
    /\ world.primary_window = "present"
    /\ world.pointers = <<>>
    /\ \E e \in SurfaceEntities :
          /\ world.surface[e].tag = "Some"
          /\ world.ui_target_camera[world.surface[e].value.root].tag = "Some"
          /\ world.surface[e].value.texture \notin world.images
          /\ world.mesh_material[e] = None
          /\ world.render_target[e] = None

\* C12: after a successful creation the surface carries a MeshMaterial3d
\* whose material has the surface's texture as base colour texture and its
\* other fields from default_material, and a WorldSpaceUiRenderTarget with
\* the normalized target of the root's camera and the pixel size of the
\* texture; also when another surface references the same root and texture.
C12_MaterialAndRenderTarget ==
    [][\A e \in SurfaceEntities :
          (SurfaceAdded(e) /\ ~world'.panicked)
          => LET surface == world'.surface[e].value
                 camera == world.cameras[world.ui_target_camera[surface.root].value]
                 material == world'.mesh_material[e]
             IN  /\ material.tag = "Some"
                 /\ material.value \in 1..Len(world'.materials)
                 /\ world'.materials[material.value].base_color_texture =
                        Some(surface.texture)
                 /\ world'.materials[material.value].rest = surface.default_material
                 /\ world'.render_target[e] =
                        Some([target |-> camera.target,
                              size |-> world.image_size[surface.texture]])
      ]_vars

\* C12 witness: two surfaces on the same root and texture, one of them with a
\* default_material, each with a material of its own and the same render
\* target.
C12_Witness ==
    /\ ~world.panicked
    /\ world.surface["S1"].tag = "Some"
    /\ world.surface["S2"].tag = "Some"
    /\ world.surface["S1"].value.root = world.surface["S2"].value.root
    /\ world.surface["S1"].value.texture = world.surface["S2"].value.texture
    /\ world.surface["S2"].value.default_material = Some("custom")
    /\ world.mesh_material["S1"].tag = "Some"
    /\ world.mesh_material["S2"].tag = "Some"
    /\ world.mesh_material["S1"] # world.mesh_material["S2"]
    /\ world.materials[world.mesh_material["S2"].value] =
          [base_color_texture |-> Some(world.surface["S2"].value.texture),
           rest |-> Some("custom")]
    /\ world.render_target["S1"].tag = "Some"
    /\ world.render_target["S1"] = world.render_target["S2"]

\* The virtual pointers the on_add hook of surface e has spawned.
PointersOf(w, e) == {k \in 1..Len(w.pointers) : w.pointers[k].spawned_for = e}

\* C19: after any sequence of surface creations, removals and re-additions,
\* each surface has exactly one virtual pointer entity, spawned at its
\* creation and carrying its pointer_id; and no operation despawns a virtual
\* pointer.
C19_OnePointerPerSurface ==
    [][/\ ~world.panicked =>
            \A e \in SurfaceEntities :
                world.surface[e].tag = "Some" =>
                    /\ Cardinality(PointersOf(world, e)) = 1
                    /\ \A k \in PointersOf(world, e) :
                          world.pointers[k].pointer_id = world.surface[e].value.pointer_id
       /\ Len(world'.pointers) >= Len(world.pointers)
       /\ \A k \in 1..Len(world.pointers) : world'.pointers[k] = world.pointers[k]
      ]_vars

====
